---- MODULE Spec2Model ----
(***************************************************************************)
(* Model of backend/main.py (LegalEase AI backend): four relay endpoints   *)
(* in front of an external generative model and an external speech         *)
(* service.  Texts are sequences of tokens; a request is a record; every   *)
(* request has its own program counter, call log, received chunks and      *)
(* produced output.  External replies are nondeterministic.                *)
(***************************************************************************)
EXTENDS Naturals, Sequences, FiniteSets, TLC

VARIABLES req, pc, calls, received, out, resp, exc, document_text

vars == <<req, pc, calls, received, out, resp, exc, document_text>>

----------------------------------------------------------------------------
(* Bounds of the model *)

NumRequests == 2
MaxTextLen == 2
MaxChunks == 3
MaxHistory == 1
ConcMaxChunks == 1

Reqs == 1..NumRequests
Solo == {1}

----------------------------------------------------------------------------
(* Texts *)

RECURSIVE SeqsUpTo(_, _)
SeqsUpTo(S, n) ==
    IF n = 0 THEN {<<>>}
    ELSE LET shorter == SeqsUpTo(S, n - 1)
         IN shorter \cup {Append(s, x) : s \in {t \in shorter : Len(t) = n - 1}, x \in S}

RECURSIVE Concat(_)
Concat(items) ==
    IF items = <<>> THEN <<>> ELSE Head(items) \o Concat(Tail(items))

Front(s) == SubSeq(s, 1, Len(s) - 1)

Whitespace == {" ", "\n"}
Alphabet == {"w", " ", "*"}
OcrAlphabet == {"w", " ", "\n"}
Texts == SeqsUpTo(Alphabet, MaxTextLen)
OcrTexts == SeqsUpTo(OcrAlphabet, MaxTextLen)
Languages == {"English", "Hindi", "French"}
TTSLanguages == {"English", "Hindi", "Gujarati", "Kannada", "Marathi", "Tamil",
                 "Telugu", "French"}

\* str.strip(): leading and trailing whitespace removed
RECURSIVE LStrip(_)
LStrip(s) ==
    IF s # <<>> /\ Head(s) \in Whitespace THEN LStrip(Tail(s)) ELSE s

RECURSIVE RStrip(_)
RStrip(s) ==
    IF s # <<>> /\ s[Len(s)] \in Whitespace THEN RStrip(Front(s)) ELSE s

Strip(s) == RStrip(LStrip(s))

\* `not document_text` instead of `not document_text.strip()`
IsBlank_NoStrip(s) == s = <<>>

\* line 108: not document_text.strip()
IsBlank(s) == Strip(s) = <<>>

----------------------------------------------------------------------------
(* Fixed messages *)

H_SUMMARY == "### Summary"
H_CLAUSES == "### Key Clauses Explained"
H_ADVICE == "### My Advice To You"

ANALYSIS_ERROR == <<"An error occurred during analysis.">>
NO_TEXT_MESSAGE ==
    <<H_SUMMARY, "\n\n", "Could not find any text in the image. Please try another one.">>
IMAGE_ERROR_MESSAGE ==
    <<H_SUMMARY, "\n\n", "An error occurred while processing the image.">>
CHAT_FALLBACK == <<"I'm sorry, I couldn't generate a response for that.">>
CHAT_ERROR_DETAIL == <<"An error occurred during the chat.">>
OCR_INSTRUCTION == <<"Extract all text from this image. Only return the extracted text.">>
MIME_TYPE == "audio/L16;rate=24000"

----------------------------------------------------------------------------
(* Prompts *)

\* the template with the second and third section swapped
AnalysisPrompt_Swapped(document, language) ==
    <<"Act as a friendly personal legal adviser.",
      "Your response must be in ", language, ".",
      "Your response must be in Markdown format and strictly follow this structure:",
      "First, provide a ", H_SUMMARY,
      "Second, provide a ", H_ADVICE,
      "Third, provide a ", H_CLAUSES,
      "Under Key Clauses Explained, list each important clause (emoji, bold title).",
      "Under My Advice To You, give short, practical, bullet-pointed advice.",
      "Document:", "---">> \o document \o <<"---">>

\* lines 70-87: the f-string of /analyze-text-stream
AnalysisPrompt(document, language) ==
    <<"Act as a friendly personal legal adviser.",
      "Your response must be in ", language, ".",
      "Your response must be in Markdown format and strictly follow this structure:",
      "First, provide a ", H_SUMMARY,
      "Second, provide a ", H_CLAUSES,
      "Third, provide a ", H_ADVICE,
      "Under Key Clauses Explained, list each important clause (emoji, bold title).",
      "Under My Advice To You, give short, practical, bullet-pointed advice.",
      "Document:", "---">> \o document \o <<"---">>

\* lines 121-128: the f-string of /analyze-image-stream
ImagePrompt(text) ==
    <<"Act as a friendly personal legal adviser...",
      "# (Same prompt as /analyze-text-stream)",
      "Document:", "---">> \o text \o <<"---">>

\* lines 143-158: the system instruction of /chat-with-document
ChatSystemPrompt(document, language) ==
    <<"You are a friendly and practical personal legal adviser.",
      "1. Prioritize the Document", "2. Use General Knowledge When Needed",
      "3. Handle Cost-Related Questions", "4. Be Concise",
      "5. Language: Respond in ", language, ".",
      "6. Formatting: **This document does not mention that.**",
      "--- LEGAL DOCUMENT CONTEXT ---">> \o document \o <<"---">>

----------------------------------------------------------------------------
(* Request bodies (the pydantic models, lines 15-38) *)

NoReq == [kind |-> "none"]

AnalysisRequest(document, language) ==
    [kind |-> "text", document |-> document, language |-> language]

ImageRequest(image_data, language) ==
    [kind |-> "image", image_data |-> image_data, language |-> language]

ChatMessage(role, text) == [role |-> role, parts |-> <<text>>]

ChatRequest(document, history, question, language) ==
    [kind |-> "chat", document |-> document, history |-> history,
     question |-> question, language |-> language]

TTSRequest(text, language) ==
    [kind |-> "tts", text |-> text, language |-> language]

ImageData == {"valid_base64", "invalid_base64"}
Messages == {ChatMessage("user", <<"w">>), ChatMessage("model", <<"*", "w">>)}
Histories == SeqsUpTo(Messages, MaxHistory)
Questions == {<<"w">>, <<"w", " ">>}
ChatDocs == {<<"w">>, <<>>}
Answers == {<<"w">>, <<"*">>}
Audio == {"pcm_a", "pcm_b"}

----------------------------------------------------------------------------
(* Replies of the external services *)

TextChunk(t) == [kind |-> "text", text |-> t]
NoTextChunk == [kind |-> "no_text", text |-> <<>>]
RaisingChunk == [kind |-> "text_raises", text |-> <<>>]

ChunkTexts == {<<H_SUMMARY>>, <<H_CLAUSES, "w">>, <<H_ADVICE>>}
Chunks == {TextChunk(t) : t \in ChunkTexts} \cup {NoTextChunk, RaisingChunk}
ConcChunks == {TextChunk(<<H_SUMMARY>>)}

ExternalErrors == {"GoogleAPIError"}
\* the classes `except Exception` catches among those the model raises
ExceptionClasses == {"GoogleAPIError", "ValueError", "binascii.Error"}
Catches(e) == e \in ExceptionClasses

NoExc == [class |-> "none", caught |-> FALSE]
Raised(e) == [class |-> e, caught |-> Catches(e)]

\* the value of a local variable that was never assigned
Unbound == <<"<unbound>">>

NoResp == [type |-> "none"]
StreamingResponse == [type |-> "stream", status |-> 200]
JSONResponse(content) == [type |-> "json", status |-> 200, body |-> content]
HTTPException(status_code, detail) ==
    [type |-> "http_error", status |-> status_code, detail |-> detail]

\* what an external call returned, other than the chunks of a stream
Reply(kind, text) == [kind |-> kind, text |-> text]
RaiseReply(e) == Reply("raise", <<e>>)
StreamReply == Reply("stream", <<>>)

Call(stage, stream, input, result, reply) ==
    [stage |-> stage, stream |-> stream, input |-> input, result |-> result,
     reply |-> reply]

\* the last call of a log with its result set
Settle(log, result) == [log EXCEPT ![Len(log)].result = result]

----------------------------------------------------------------------------
(* /text-to-speech helpers *)

SAMPLE_RATE == 24000

language_mapping ==
    ("English" :> "en-IN") @@ ("Hindi" :> "hi-IN") @@ ("Gujarati" :> "gu-IN") @@
    ("Kannada" :> "kn-IN") @@ ("Marathi" :> "mr-IN") @@ ("Tamil" :> "ta-IN") @@
    ("Telugu" :> "te-IN")

\* another default than the one of line 184
LangCode_OtherDefault(language) ==
    IF language \in DOMAIN language_mapping THEN language_mapping[language] ELSE "en-US"

\* line 184: language_mapping.get(request.language, "en-IN")
LangCode(language) ==
    IF language \in DOMAIN language_mapping THEN language_mapping[language] ELSE "en-IN"

\* line 186: SynthesisInput(text=request.text)
SynthesisInput(text) == text

\* line 198: base64.b64encode(...).decode('utf-8')
B64Encode(bytes) == <<"base64", bytes>>

----------------------------------------------------------------------------
(* State *)

Init ==
    /\ req = [r \in Reqs |-> NoReq]
    /\ pc = [r \in Reqs |-> "idle"]
    /\ calls = [r \in Reqs |-> <<>>]
    /\ received = [r \in Reqs |-> <<>>]
    /\ out = [r \in Reqs |-> <<>>]
    /\ resp = [r \in Reqs |-> NoResp]
    /\ exc = [r \in Reqs |-> NoExc]
    /\ document_text = [r \in Reqs |-> Unbound]

----------------------------------------------------------------------------
(* The streaming generators *)

\* the handler swallows the exception and yields nothing
ErrorYield_Silent == <<>>

\* lines 95 and 136: yield "An error occurred during analysis."
ErrorYield == <<ANALYSIS_ERROR>>

\* the handler starts the generator's body over
AfterExcept_Retry == "generate"

\* lines 93-96 and 134-137: nothing follows the except clause, the generator ends
AfterExcept == "done"

\* lines 93-95 and 134-136: except Exception
GenExcept(r, e) ==
    /\ exc' = [exc EXCEPT ![r] = Raised(e)]
    /\ out' = [out EXCEPT ![r] = IF Catches(e) THEN @ \o ErrorYield ELSE @]
    /\ pc' = [pc EXCEPT ![r] = IF Catches(e) THEN AfterExcept ELSE "done"]

\* lines 70-87 (text) and 121-128 (image): the prompt of the analysis stage
PromptOf(r) ==
    IF req[r].kind = "text"
    THEN AnalysisPrompt(req[r].document, req[r].language)
    ELSE ImagePrompt(document_text[r])

\* the chunk is put in front of what was yielded before
Yield_Reordered(items, chunk) == <<chunk.text>> \o items

\* lines 91 and 132: yield chunk.text
Yield(items, chunk) == Append(items, chunk.text)

\* POST /analyze-text-stream: the handler returns the streaming response
AnalyzeDocumentStream(r, D, L) ==
    /\ pc[r] = "idle"
    /\ \E d \in D, l \in L : req' = [req EXCEPT ![r] = AnalysisRequest(d, l)]
    /\ resp' = [resp EXCEPT ![r] = StreamingResponse]
    /\ pc' = [pc EXCEPT ![r] = "generate"]
    /\ UNCHANGED <<calls, received, out, exc, document_text>>

\* lines 69-88 and 120-129: model.generate_content(prompt, stream=True)
StartAnalysis(r) ==
    /\ pc[r] = "generate"
    /\ \/ /\ calls' = [calls EXCEPT ![r] =
                          Append(@, Call("analysis", TRUE, PromptOf(r), "pending", StreamReply))]
          /\ pc' = [pc EXCEPT ![r] = "pull"]
          /\ UNCHANGED <<out, exc>>
       \/ \E e \in ExternalErrors :
             /\ calls' = [calls EXCEPT ![r] =
                             Append(@, Call("analysis", TRUE, PromptOf(r), "raised", RaiseReply(e)))]
             /\ GenExcept(r, e)
    /\ UNCHANGED <<req, received, resp, document_text>>

\* lines 89 and 130: for chunk in stream
Pull(r, bound, C) ==
    /\ pc[r] = "pull"
    /\ \/ /\ Len(received[r]) < bound
          /\ \E c \in C : received' = [received EXCEPT ![r] = Append(@, c)]
          /\ pc' = [pc EXCEPT ![r] = "relay"]
          /\ UNCHANGED <<calls, out, exc>>
       \/ /\ calls' = [calls EXCEPT ![r] = Settle(@, "ok")]
          /\ pc' = [pc EXCEPT ![r] = "done"]
          /\ UNCHANGED <<received, out, exc>>
       \/ \E e \in ExternalErrors :
             /\ calls' = [calls EXCEPT ![r] = Settle(@, "raised")]
             /\ GenExcept(r, e)
             /\ UNCHANGED received
    /\ UNCHANGED <<req, resp, document_text>>

\* lines 90-91 and 131-132: if hasattr(chunk, 'text'): yield chunk.text
Relay(r) ==
    /\ pc[r] = "relay"
    /\ LET chunk == received[r][Len(received[r])]
       IN \/ /\ chunk.kind = "text"
             /\ out' = [out EXCEPT ![r] = Yield(@, chunk)]
             /\ pc' = [pc EXCEPT ![r] = "sleep"]
             /\ UNCHANGED exc
          \/ /\ chunk.kind = "no_text"
             /\ pc' = [pc EXCEPT ![r] = "pull"]
             /\ UNCHANGED <<out, exc>>
          \/ /\ chunk.kind = "text_raises"
             /\ GenExcept(r, "ValueError")
    /\ UNCHANGED <<req, calls, received, resp, document_text>>

\* lines 92 and 133: await asyncio.sleep(0.01)
Sleep(r) ==
    /\ pc[r] = "sleep"
    /\ pc' = [pc EXCEPT ![r] = "pull"]
    /\ UNCHANGED <<req, calls, received, out, resp, exc, document_text>>

----------------------------------------------------------------------------
(* POST /analyze-image-stream *)

\* lines 112-116: except Exception of the extraction stage
ImageExcept(r, e) ==
    /\ exc' = [exc EXCEPT ![r] = Raised(e)]
    /\ resp' = [resp EXCEPT ![r] = IF Catches(e) THEN StreamingResponse ELSE @]
    /\ pc' = [pc EXCEPT ![r] = IF Catches(e) THEN "emit_error" ELSE "done"]
    /\ UNCHANGED document_text

\* lines 101-117: decode, extraction call, blank check; the handler returns
\* the streaming response of one of its three generators
AnalyzeImageStream(r, I, L, O) ==
    /\ pc[r] = "idle"
    /\ \E i \in I, l \in L :
          /\ req' = [req EXCEPT ![r] = ImageRequest(i, l)]
          /\ \/ /\ i = "invalid_base64"
                /\ ImageExcept(r, "binascii.Error")
                /\ UNCHANGED calls
             \/ /\ i = "valid_base64"
                /\ \E e \in ExternalErrors :
                      /\ calls' = [calls EXCEPT ![r] = Append(@,
                            Call("ocr", FALSE, <<"image/jpeg">> \o OCR_INSTRUCTION, "raised",
                                 RaiseReply(e)))]
                      /\ ImageExcept(r, e)
             \/ /\ i = "valid_base64"
                /\ \/ /\ calls' = [calls EXCEPT ![r] = Append(@,
                            Call("ocr", FALSE, <<"image/jpeg">> \o OCR_INSTRUCTION, "ok",
                                 RaisingChunk))]
                      /\ ImageExcept(r, "ValueError")
                   \/ \E t \in O :
                         /\ calls' = [calls EXCEPT ![r] = Append(@,
                               Call("ocr", FALSE, <<"image/jpeg">> \o OCR_INSTRUCTION, "ok",
                                    TextChunk(t)))]
                         /\ document_text' = [document_text EXCEPT ![r] = t]
                         /\ resp' = [resp EXCEPT ![r] = StreamingResponse]
                         /\ pc' = [pc EXCEPT ![r] =
                                      IF IsBlank(t) THEN "emit_no_text" ELSE "generate"]
                         /\ UNCHANGED exc
    /\ UNCHANGED <<received, out>>

\* lines 109-110 and 114-115: no_text_generator and error_generator
EmitFixed(r) ==
    /\ pc[r] \in {"emit_no_text", "emit_error"}
    /\ out' = [out EXCEPT ![r] =
                  Append(@, IF pc[r] = "emit_no_text" THEN NO_TEXT_MESSAGE
                            ELSE IMAGE_ERROR_MESSAGE)]
    /\ pc' = [pc EXCEPT ![r] = "done"]
    /\ UNCHANGED <<req, calls, received, resp, exc, document_text>>

----------------------------------------------------------------------------
(* POST /chat-with-document *)

Content(msg) == [role |-> msg.role, parts |-> msg.parts]

\* the history of the request followed by the questions of the chat requests
\* already served, as a server-side conversation store would keep them
HistoryContent_Persisted(history) ==
    [i \in 1..Len(history) |-> Content(history[i])]
        \o [i \in 1..Cardinality({q \in Reqs : req[q].kind = "chat"}) |->
               [role |-> "user", parts |-> <<"earlier question">>]]

\* line 160: the history of the request itself, message by message
HistoryContent(history) ==
    [i \in 1..Len(history) |-> Content(history[i])]

\* send_message(..., stream=True)
SendMessageStream_On == TRUE

\* line 164: chat.send_message(request.question, stream=False)
SendMessageStream == FALSE

\* lines 142-174
ChatWithDocument(r, D, H, Q, L, A) ==
    /\ pc[r] = "idle"
    /\ \E d \in D, h \in H, q \in Q, l \in L :
          /\ req' = [req EXCEPT ![r] = ChatRequest(d, h, q, l)]
          /\ LET input == [system_instruction |-> ChatSystemPrompt(d, l),
                           history |-> HistoryContent(h),
                           message |-> q]
             IN \/ \E e \in ExternalErrors :
                      /\ calls' = [calls EXCEPT ![r] = Append(@,
                            Call("chat", SendMessageStream, input, "raised", RaiseReply(e)))]
                      /\ exc' = [exc EXCEPT ![r] = Raised(e)]
                      /\ resp' = [resp EXCEPT ![r] = HTTPException(500, CHAT_ERROR_DETAIL)]
                \/ /\ calls' = [calls EXCEPT ![r] = Append(@,
                         Call("chat", SendMessageStream, input, "ok", RaisingChunk))]
                   /\ exc' = [exc EXCEPT ![r] = Raised("ValueError")]
                   /\ resp' = [resp EXCEPT ![r] = HTTPException(500, CHAT_ERROR_DETAIL)]
                \/ /\ calls' = [calls EXCEPT ![r] = Append(@,
                         Call("chat", SendMessageStream, input, "ok", NoTextChunk))]
                   /\ resp' = [resp EXCEPT ![r] =
                                  JSONResponse([response |-> CHAT_FALLBACK])]
                   /\ UNCHANGED exc
                \/ \E a \in A :
                      /\ calls' = [calls EXCEPT ![r] = Append(@,
                            Call("chat", SendMessageStream, input, "ok", TextChunk(a)))]
                      /\ resp' = [resp EXCEPT ![r] = JSONResponse([response |-> a])]
                      /\ UNCHANGED exc
    /\ pc' = [pc EXCEPT ![r] = "done"]
    /\ UNCHANGED <<received, out, document_text>>

----------------------------------------------------------------------------
(* POST /text-to-speech *)

\* lines 179-201
TextToSpeech(r, T, L, B) ==
    /\ pc[r] = "idle"
    /\ \E t \in T, l \in L :
          /\ req' = [req EXCEPT ![r] = TTSRequest(t, l)]
          /\ LET input == [text |-> SynthesisInput(t),
                           language_code |-> LangCode(l),
                           ssml_gender |-> "NEUTRAL",
                           audio_encoding |-> "LINEAR16",
                           sample_rate_hertz |-> SAMPLE_RATE]
             IN \/ \E e \in ExternalErrors :
                      /\ calls' = [calls EXCEPT ![r] =
                            Append(@, Call("tts", FALSE, input, "raised", RaiseReply(e)))]
                      /\ exc' = [exc EXCEPT ![r] = Raised(e)]
                      /\ resp' = [resp EXCEPT ![r] =
                            HTTPException(500, <<"Error in text-to-speech: ", e>>)]
                \/ \E b \in B :
                      /\ calls' = [calls EXCEPT ![r] =
                            Append(@, Call("tts", FALSE, input, "ok", Reply("audio", <<b>>)))]
                      /\ resp' = [resp EXCEPT ![r] = JSONResponse(
                            [audio_data |-> B64Encode(b), mime_type |-> MIME_TYPE])]
                      /\ UNCHANGED exc
    /\ pc' = [pc EXCEPT ![r] = "done"]
    /\ UNCHANGED <<received, out, document_text>>

----------------------------------------------------------------------------
(* Specifications *)

\* one request handled on its own
Next ==
    \E r \in Solo :
        \/ AnalyzeDocumentStream(r, Texts, Languages)
        \/ AnalyzeImageStream(r, ImageData, Languages, OcrTexts)
        \/ ChatWithDocument(r, ChatDocs, Histories, Questions, Languages, Answers)
        \/ TextToSpeech(r, Texts, TTSLanguages, Audio)
        \/ StartAnalysis(r)
        \/ Pull(r, MaxChunks, Chunks)
        \/ Relay(r)
        \/ Sleep(r)
        \/ EmitFixed(r)

Spec == Init /\ [][Next]_vars

ConcDocs == {<<"w">>, <<"*">>}
ConcLanguages == {"Hindi", "French"}
ConcOcrTexts == {<<" ">>, <<"w">>}
ConcHistories == {<<>>, <<ChatMessage("user", <<"w">>)>>}

\* NumRequests requests handled concurrently, their steps interleaved
NextConc ==
    \E r \in Reqs :
        \/ AnalyzeDocumentStream(r, ConcDocs, {"Hindi"})
        \/ AnalyzeImageStream(r, {"valid_base64"}, {"Hindi"}, ConcOcrTexts)
        \/ ChatWithDocument(r, {<<"w">>}, ConcHistories, {<<"w">>}, {"Hindi"}, {<<"w">>})
        \/ TextToSpeech(r, {<<"*">>}, ConcLanguages, {"pcm_a"})
        \/ StartAnalysis(r)
        \/ Pull(r, ConcMaxChunks, ConcChunks)
        \/ Relay(r)
        \/ Sleep(r)
        \/ EmitFixed(r)

SpecConc == Init /\ [][NextConc]_vars

----------------------------------------------------------------------------
(* Vocabulary of the properties *)

Last(s) == s[Len(s)]
Occurrences(s, x) == Cardinality({i \in 1..Len(s) : s[i] = x})
Contains(s, x) == \E i \in 1..Len(s) : s[i] = x

HeadersInOrder(s) ==
    \E i \in 1..Len(s) :
        /\ s[i] = H_SUMMARY
        /\ \E j \in (i + 1)..Len(s) :
              /\ s[j] = H_CLAUSES
              /\ \E k \in (j + 1)..Len(s) : s[k] = H_ADVICE

IsText(c) == c.kind = "text"
TextsOf(chunks) ==
    LET bearing == SelectSeq(chunks, IsText)
    IN [i \in 1..Len(bearing) |-> bearing[i].text]

OnlyWhitespace(s) == s # Unbound /\ \A i \in 1..Len(s) : s[i] \in Whitespace

HasAnalysisCall(r) == \E i \in 1..Len(calls[r]) : calls[r][i].stage = "analysis"

\* the items of the stream that are not the final error line
Relayed(r) == IF exc[r].class # "none" /\ exc[r].caught THEN Front(out[r]) ELSE out[r]

----------------------------------------------------------------------------
(* C1: in /analyze-text-stream the generator never lets an exception escape *)
(* and never gets stuck: an exception is caught, the error line is then the *)
(* last item of the stream and occurs once, and the generator has ended;    *)
(* without an exception the stream holds no error line; a generator that    *)
(* has not ended can always take its next step.                             *)
C1_FailsOpen ==
    \A r \in Reqs :
        req[r].kind = "text" =>
            /\ exc[r].class # "none" =>
                  /\ exc[r].caught
                  /\ pc[r] = "done"
                  /\ out[r] # <<>>
                  /\ Last(out[r]) = ANALYSIS_ERROR
                  /\ Occurrences(out[r], ANALYSIS_ERROR) = 1
            /\ exc[r].class = "none" => ~Contains(out[r], ANALYSIS_ERROR)
            /\ pc[r] # "done" =>
                  ENABLED (StartAnalysis(r) \/ Pull(r, MaxChunks, Chunks)
                              \/ Relay(r) \/ Sleep(r))

\* the external stream fails after two chunks were relayed
C1_Witness ==
    \E r \in Reqs :
        /\ req[r].kind = "text" /\ pc[r] = "done"
        /\ exc[r].class = "GoogleAPIError"
        /\ Len(received[r]) = 2 /\ Len(out[r]) = 3

(* C2, as stated: every finished /analyze-text-stream stream of a non-empty *)
(* document and language contains the three section headers in order.       *)
C2_StreamHasHeaders ==
    \A r \in Reqs :
        (/\ req[r].kind = "text" /\ pc[r] = "done"
         /\ req[r].document # <<>> /\ req[r].language # "")
            => HeadersInOrder(Concat(out[r]))

(* C2, amended: for a non-empty document and language the prompt sent to    *)
(* the external model names the three section headers in order (with the    *)
(* language and the document), and the finished stream contains them in     *)
(* order whenever the external stream completed without an exception and    *)
(* its text chunks, concatenated, contain them in order.                    *)
C2_HeadersRequestedAndRelayed ==
    \A r \in Reqs :
        (req[r].kind = "text" /\ req[r].document # <<>> /\ req[r].language # "") =>
            /\ \A i \in 1..Len(calls[r]) :
                  /\ HeadersInOrder(calls[r][i].input)
                  /\ Contains(calls[r][i].input, req[r].language)
            /\ (/\ pc[r] = "done" /\ exc[r].class = "none"
                /\ HeadersInOrder(Concat(TextsOf(received[r]))))
                  => HeadersInOrder(Concat(out[r]))

\* the external model answered with the three sections, in three chunks
C2_Witness ==
    \E r \in Reqs :
        /\ req[r].kind = "text" /\ req[r].document # <<>> /\ pc[r] = "done"
        /\ exc[r].class = "none"
        /\ Len(calls[r]) = 1
        /\ HeadersInOrder(Concat(out[r]))

(* C3: the analysis-stage prompt of /analyze-image-stream is the prompt     *)
(* /analyze-text-stream builds for (extracted text, requested language).    *)
C3_ImagePromptIsTextPrompt ==
    \A r \in Reqs :
        req[r].kind = "image" =>
            \A i \in 1..Len(calls[r]) :
                calls[r][i].stage = "analysis" =>
                    calls[r][i].input = AnalysisPrompt(document_text[r], req[r].language)

(* C4: no emphasis markup character of a /text-to-speech request's text     *)
(* reaches the synthesis call.                                              *)
C4_MarkupStripped ==
    \A r \in Reqs :
        req[r].kind = "tts" =>
            \A i \in 1..Len(calls[r]) : ~Contains(calls[r][i].input.text, "*")

(* C5: when the extraction of /analyze-image-stream returns empty or        *)
(* whitespace-only text, the stream is exactly the "could not find text"    *)
(* message, the analysis stage does not run and no second call is made.     *)
C5_NoTextShortCircuit ==
    \A r \in Reqs :
        (req[r].kind = "image" /\ OnlyWhitespace(document_text[r])) =>
            /\ Len(calls[r]) = 1
            /\ calls[r][1].stage = "ocr"
            /\ pc[r] \in {"emit_no_text", "done"}
            /\ out[r] = IF pc[r] = "done" THEN <<NO_TEXT_MESSAGE>> ELSE <<>>
            /\ received[r] = <<>>
            /\ exc[r].class = "none"

\* whitespace-only (not empty) extracted text, stream finished
C5_Witness ==
    \E r \in Reqs :
        /\ req[r].kind = "image" /\ pc[r] = "done"
        /\ document_text[r] = <<" ", "\n">>
        /\ out[r] = <<NO_TEXT_MESSAGE>>

(* C6: a /chat-with-document request makes one non-streaming external call  *)
(* and has exactly one outcome, never a stream: a JSON body whose only      *)
(* field is the string `response`, or, when the call or the reading of its  *)
(* text fails, an HTTP 500 with the generic detail.                         *)
C6_ChatOutcome ==
    \A r \in Reqs :
        req[r].kind = "chat" =>
            /\ pc[r] = "done"
            /\ Len(calls[r]) = 1
            /\ calls[r][1].stage = "chat"
            /\ calls[r][1].stream = FALSE
            /\ out[r] = <<>> /\ received[r] = <<>>
            /\ resp[r].type \in {"json", "http_error"}
            /\ resp[r].type = "json" =>
                  /\ resp[r].status = 200
                  /\ DOMAIN resp[r].body = {"response"}
                  /\ resp[r].body.response \in Answers \cup {CHAT_FALLBACK}
                  /\ exc[r].class = "none"
            /\ resp[r].type = "http_error" =>
                  /\ resp[r] = HTTPException(500, CHAT_ERROR_DETAIL)
                  /\ exc[r].class # "none"
            /\ exc[r].class # "none" => resp[r].type = "http_error"

\* the external call raised and the caller got the HTTP 500
C6_Witness ==
    \E r \in Reqs :
        /\ req[r].kind = "chat" /\ req[r].history # <<>>
        /\ calls[r][1].result = "raised"
        /\ resp[r].type = "http_error"

\* the language names and region codes of the speech relay, written out
C7_Table ==
    {<<"English", "en-IN">>, <<"Hindi", "hi-IN">>, <<"Gujarati", "gu-IN">>,
     <<"Kannada", "kn-IN">>, <<"Marathi", "mr-IN">>, <<"Tamil", "ta-IN">>,
     <<"Telugu", "te-IN">>}

(* C7: the region code passed to the speech service is the table's entry    *)
(* for the request's language name and "en-IN" for a name not in the table; *)
(* the request fails only when the external call fails.                     *)
C7_RegionCode ==
    \A r \in Reqs :
        req[r].kind = "tts" =>
            /\ Len(calls[r]) = 1
            /\ \A p \in C7_Table :
                  req[r].language = p[1] => calls[r][1].input.language_code = p[2]
            /\ req[r].language \notin {p[1] : p \in C7_Table} =>
                  calls[r][1].input.language_code = "en-IN"
            /\ calls[r][1].result = "ok" => resp[r].type = "json"

\* a language name that is not in the table, served
C7_Witness ==
    \E r \in Reqs :
        /\ req[r].kind = "tts" /\ req[r].language = "French"
        /\ calls[r][1].input.language_code = "en-IN"
        /\ resp[r].type = "json"

(* C8: no request repeats an external call: each stage is called at most    *)
(* once (one call for text, chat and speech, two for an image), a failed    *)
(* call is the last call of its request, and the analysis call of an image  *)
(* request comes second, after an extraction call that returned non-blank   *)
(* text.                                                                    *)
C8_NoRetry ==
    \A r \in Reqs :
        /\ Len(calls[r]) <= (IF req[r].kind = "image" THEN 2 ELSE 1)
        /\ \A i, j \in 1..Len(calls[r]) : i # j => calls[r][i].stage # calls[r][j].stage
        /\ \A i \in 1..Len(calls[r]) : i < Len(calls[r]) => calls[r][i].result = "ok"
        /\ \A i \in 1..Len(calls[r]) :
              (req[r].kind = "image" /\ calls[r][i].stage = "analysis") =>
                  /\ i = 2
                  /\ calls[r][1].stage = "ocr"
                  /\ calls[r][1].result = "ok"
                  /\ calls[r][1].reply.kind = "text"
                  /\ document_text[r] # Unbound
                  /\ ~OnlyWhitespace(document_text[r])

\* an image request whose analysis call failed part-way: two calls, no third
C8_Witness ==
    \E r \in Reqs :
        /\ req[r].kind = "image" /\ pc[r] = "done"
        /\ Len(calls[r]) = 2
        /\ calls[r][2].result = "raised"
        /\ Len(received[r]) >= 1

\* what the external services answered to a request's calls
Replies(r) ==
    <<[i \in 1..Len(calls[r]) |-> <<calls[r][i].result, calls[r][i].reply>>],
      received[r], exc[r].class>>

\* what a request sent to the external services
Sent(r) ==
    [i \in 1..Len(calls[r]) |->
        <<calls[r][i].stage, calls[r][i].stream, calls[r][i].input>>]

\* what the caller of a request got
Response(r) == <<resp[r], out[r]>>

C10_Verbatim ==
    \A r \in Reqs :
        HasAnalysisCall(r) =>
            Relayed(r) = TextsOf(IF pc[r] = "relay" THEN Front(received[r])
                                 ELSE received[r])

\* two different chunks relayed around a chunk without text
C10_Witness ==
    \E r \in Reqs :
        /\ req[r].kind = "image" /\ pc[r] = "sleep"
        /\ Len(received[r]) = 3 /\ Len(out[r]) = 2
        /\ out[r][1] # out[r][2]

====
